---- MODULE Spec2Model ----
(***************************************************************************)
(* Model of crud.py: MongoConfig and the CRUD helper (constructor,         *)
(* _connect, _ensure_collection, create, read, update, delete) together    *)
(* with the part of the PyMongo driver the helper calls (MongoClient,      *)
(* ping, insert_one, find, update_one/many, delete_one/many) acting on one *)
(* server-side collection.                                                 *)
(*                                                                         *)
(* Python values whose type the code tests with isinstance are tagged      *)
(* values [type, val]; an exception is a record [kind, msg].               *)
(***************************************************************************)
EXTENDS Naturals, Integers, Sequences, FiniteSets, TLC

VARIABLES
    instance,     \* TRUE once the constructor has returned an adapter to the caller
    client,       \* self._client
    collection,   \* self._collection
    db,           \* the records of the bound collection on the server
    before,       \* the records of the collection when the last call started
    call,         \* the last call made by the caller: its name and arguments
    ret,          \* the value the last call returned (NoValue if it raised)
    exc,          \* the exception the last call raised to the caller (NoExc if none)
    printed,      \* the lines the last call wrote to the error channel (print)
    driverCalls   \* the driver calls the last call issued, each with its error

vars == <<instance, client, collection, db, before, call, ret, exc, printed, driverCalls>>

(***************************************************************************)
(* Bounds and the bounded universe of values.                              *)
(***************************************************************************)
MaxId == 2

DefaultPort == 27017

TimeoutMS == 5000

None == "None"

NoValue == "no value"

NoFault == ""

Absent == "$absent"

Ids == 1..MaxId

Fields == {"name", "species"}

Names == {"Rex", "Max"}

Species == {"Dog", "Canine"}

\* the lines of the server's answers that make a driver call raise PyMongoError
Faults == {NoFault, "timed out"}

Dict(v) == [type |-> "dict", val |-> v]

Str(s) == [type |-> "str", val |-> s]

\* documents handed to create: with or without an _id of their own
Documents == [_id : Ids \cup {0}, name : Names, species : Species]

\* query filters naming at most one field: a field is either absent from the filter
\* or required to equal a value
Queries ==
    {q \in [name : Names \cup {Absent}, species : Species \cup {Absent}] :
        q.name = Absent \/ q.species = Absent}

\* update specifications {"$set": {field: value}}
SetSpecs == [field : {"species"}, value : Species] \cup [field : {"name"}, value : Names]

DocumentArgs == {Dict(d) : d \in Documents} \cup {Str("Rex")}

QueryArgs == {Dict(q) : q \in Queries} \cup {Str("Rex")}

UpdateArgs == {Dict(u) : u \in SetSpecs} \cup {Str("Rex")}

Configs ==
    [username : {"", "aacuser"}, password : {"", "secret"}, host : {"localhost"},
     port : {DefaultPort}, authSource : {"aac"}, tls : {FALSE},
     replicaSet : {None, "", "rs0"}]

(***************************************************************************)
(* Exceptions.                                                             *)
(***************************************************************************)
NoExc == [kind |-> "none", msg |-> ""]

PyMongoError(msg) == [kind |-> "PyMongoError", msg |-> msg]

ValueError(msg) == [kind |-> "ValueError", msg |-> msg]

RuntimeError(msg) == [kind |-> "RuntimeError", msg |-> msg]

IsDict(x) == x.type = "dict"

DriverCall(name, fault) == [name |-> name, error |-> fault]

(***************************************************************************)
(* MongoConfig and connection establishment.                               *)
(***************************************************************************)
Truthy(s) == s # None /\ s # ""

CredentialsMutated(config) == Truthy(config.username) \/ Truthy(config.password)

\* line 71: if config.username and config.password
Credentials(config) == Truthy(config.username) /\ Truthy(config.password)

\* lines 63-78: the keyword arguments handed to MongoClient
ClientKwargs(config) ==
    LET base == [host |-> config.host, port |-> config.port, tls |-> config.tls,
                 connectTimeoutMS |-> TimeoutMS, serverSelectionTimeoutMS |-> TimeoutMS]
        creds == IF Credentials(config)
                 THEN [username |-> config.username, password |-> config.password,
                       authSource |-> config.authSource]
                 ELSE [k \in {} |-> ""]
        rs == IF Truthy(config.replicaSet)
              THEN [replicaSet |-> config.replicaSet]
              ELSE [k \in {} |-> ""]
    IN  base @@ creds @@ rs

ClientHandle(kwargs) == "MongoClient"

CollectionHandle(db_name, collection_name) == db_name \o "." \o collection_name

\* line 87: raise RuntimeError(f"[MongoDB] Connection failed: {e}") from e
Wrapped(e) == RuntimeError("[MongoDB] Connection failed: " \o e.msg)

connectSwallow(config, db_name, collection_name, openFault, pingFault) ==
    LET kwargs == ClientKwargs(config)
        opened == openFault = NoFault
        pinged == opened /\ pingFault = NoFault
    IN  [kwargs |-> kwargs,
         client |-> IF opened THEN ClientHandle(kwargs) ELSE None,
         collection |-> IF pinged THEN CollectionHandle(db_name, collection_name) ELSE None,
         calls |-> IF opened
                   THEN <<DriverCall("MongoClient", openFault), DriverCall("ping", pingFault)>>
                   ELSE <<DriverCall("MongoClient", openFault)>>,
         exc |-> NoExc]

connectBindFirst(config, db_name, collection_name, openFault, pingFault) ==
    LET kwargs == ClientKwargs(config)
        opened == openFault = NoFault
        pinged == opened /\ pingFault = NoFault
    IN  [kwargs |-> kwargs,
         client |-> IF opened THEN ClientHandle(kwargs) ELSE None,
         collection |-> IF opened THEN CollectionHandle(db_name, collection_name) ELSE None,
         calls |-> IF opened
                   THEN <<DriverCall("MongoClient", openFault), DriverCall("ping", pingFault)>>
                   ELSE <<DriverCall("MongoClient", openFault)>>,
         exc |-> IF pinged THEN NoExc
                 ELSE Wrapped(PyMongoError(IF opened THEN pingFault ELSE openFault))]

\* lines 58-87: _connect. MongoClient(**client_kwargs) raises PyMongoError when
\* openFault is a fault, admin.command("ping") when pingFault is one; the fields
\* are the ones the object holds when _connect returns or raises.
connect(config, db_name, collection_name, openFault, pingFault) ==
    LET kwargs == ClientKwargs(config)
        opened == openFault = NoFault
        pinged == opened /\ pingFault = NoFault
    IN  [kwargs |-> kwargs,
         client |-> IF opened THEN ClientHandle(kwargs) ELSE None,
         collection |-> IF pinged THEN CollectionHandle(db_name, collection_name) ELSE None,
         calls |-> IF opened
                   THEN <<DriverCall("MongoClient", openFault), DriverCall("ping", pingFault)>>
                   ELSE <<DriverCall("MongoClient", openFault)>>,
         exc |-> IF pinged THEN NoExc
                 ELSE Wrapped(PyMongoError(IF opened THEN pingFault ELSE openFault))]

\* lines 43-54: CRUD(config, db_name, collection_name). The caller obtains the
\* instance only if __init__ returns without raising.
CRUD(config, db_name, collection_name, openFault, pingFault) ==
    /\ ~instance
    /\ LET r == connect(config, db_name, collection_name, openFault, pingFault)
       IN  /\ client' = r.client
           /\ collection' = r.collection
           /\ instance' = (r.exc.kind = "none")
           /\ exc' = r.exc
           /\ driverCalls' = r.calls
           /\ call' = [op |-> "CRUD", config |-> config, kwargs |-> r.kwargs]
    /\ ret' = NoValue
    /\ printed' = <<>>
    /\ before' = db
    /\ UNCHANGED db

(***************************************************************************)
(* The driver's collection operations, on the set of stored records (their *)
(* _id is unique). A call given a fault raises PyMongoError and leaves the *)
(* records alone.                                                          *)
(***************************************************************************)
Min(a, b) == IF a < b THEN a ELSE b

Range(s) == {s[i] : i \in 1..Len(s)}

\* a record satisfies a filter when every field the filter names has the value it gives
Matches(doc, q) == \A f \in Fields : q[f] = Absent \/ doc[f] = q[f]

MatchSet(docs, q) == {d \in docs : Matches(d, q)}

\* the identifiers no stored record uses (the driver generates a fresh _id)
FreshIds(docs) == Ids \ {d._id : d \in docs}

\* the record a $set leaves behind
SetField(doc, spec) == [doc EXCEPT ![spec.field] = spec.value]

\* the order in which a cursor yields records: here by ascending _id
CursorOrder(docs) ==
    [i \in 1..Cardinality(docs) |->
        CHOOSE d \in docs : Cardinality({e \in docs : e._id <= d._id}) = i]

\* Collection.insert_one(document): the driver assigns newid when the document
\* carries no _id, and rejects an _id that a stored record already has
insert_one(docs, document, newid, fault) ==
    LET stored == [document EXCEPT !._id = IF @ = 0 THEN newid ELSE @]
        error == IF fault # NoFault THEN fault
                 ELSE IF \E d \in docs : d._id = stored._id
                      THEN "E11000 duplicate key error"
                      ELSE NoFault
    IN  IF error # NoFault
        THEN [error |-> error, docs |-> docs, acknowledged |-> FALSE, inserted_id |-> 0]
        ELSE [error |-> NoFault, docs |-> docs \cup {stored}, acknowledged |-> TRUE,
              inserted_id |-> stored._id]

\* Collection.find(query) drained by list(cursor): every matching record, whole
find(docs, q, fault) ==
    IF fault # NoFault
    THEN [error |-> fault, docs |-> docs, found |-> <<>>]
    ELSE [error |-> NoFault, docs |-> docs, found |-> CursorOrder(MatchSet(docs, q))]

\* Collection.update_one(query, {"$set": ...}) acts on the matching record whose
\* _id is pick (0: none matches); modified_count counts a record only if the
\* update changed it
update_one(docs, q, spec, pick, fault) ==
    IF fault # NoFault
    THEN [error |-> fault, docs |-> docs, matched_count |-> 0, modified_count |-> 0]
    ELSE LET hit == {d \in MatchSet(docs, q) : d._id = pick}
         IN  [error |-> NoFault,
              docs |-> (docs \ hit) \cup {SetField(d, spec) : d \in hit},
              matched_count |-> Cardinality(hit),
              modified_count |-> Cardinality({d \in hit : SetField(d, spec) # d})]

\* Collection.update_many(query, {"$set": ...})
update_many(docs, q, spec, fault) ==
    IF fault # NoFault
    THEN [error |-> fault, docs |-> docs, matched_count |-> 0, modified_count |-> 0]
    ELSE LET hit == MatchSet(docs, q)
         IN  [error |-> NoFault,
              docs |-> (docs \ hit) \cup {SetField(d, spec) : d \in hit},
              matched_count |-> Cardinality(hit),
              modified_count |-> Cardinality({d \in hit : SetField(d, spec) # d})]

\* Collection.delete_one(query): removes the matching record whose _id is pick
delete_one(docs, q, pick, fault) ==
    IF fault # NoFault
    THEN [error |-> fault, docs |-> docs, deleted_count |-> 0]
    ELSE LET hit == {d \in MatchSet(docs, q) : d._id = pick}
         IN  [error |-> NoFault, docs |-> docs \ hit, deleted_count |-> Cardinality(hit)]

\* Collection.delete_many(query)
delete_many(docs, q, fault) ==
    IF fault # NoFault
    THEN [error |-> fault, docs |-> docs, deleted_count |-> 0]
    ELSE [error |-> NoFault, docs |-> docs \ MatchSet(docs, q),
          deleted_count |-> Cardinality(MatchSet(docs, q))]

\* the record one of the *_one calls acts on: any matching one, 0 if none matches
Picks(docs, query, many) ==
    IF ~IsDict(query) \/ many \/ MatchSet(docs, query.val) = {}
    THEN {0}
    ELSE {d._id : d \in MatchSet(docs, query.val)}

(***************************************************************************)
(* The public operations of CRUD.                                          *)
(***************************************************************************)
CaughtAny(e) == e.kind # "none"

CaughtNothing(e) == FALSE

\* except errors.PyMongoError as e (lines 109, 123, 150, 169)
Caught(e) == e.kind = "PyMongoError"

\* lines 89-95: _ensure_collection
ensure_collection(coll) ==
    IF coll = None THEN RuntimeError("[MongoDB] Collection is not initialized.") ELSE NoExc

Raised(e, calls, docs) == [exc |-> e, value |-> NoValue, calls |-> calls, docs |-> docs]

Returned(v, calls, docs) == [exc |-> NoExc, value |-> v, calls |-> calls, docs |-> docs]

\* the except clause of a method: a caught error is printed with the method's tag
\* and the sentinel is returned; any other exception leaves the method
Handle(body, tag, sentinel) ==
    IF body.exc.kind # "none" /\ Caught(body.exc)
    THEN [ret |-> sentinel, exc |-> NoExc, printed |-> <<tag \o body.exc.msg>>,
          calls |-> body.calls, docs |-> body.docs]
    ELSE [ret |-> body.value, exc |-> body.exc, printed |-> <<>>,
          calls |-> body.calls, docs |-> body.docs]

CreateOnErrorMutated == TRUE

\* line 111: return False
CreateOnError == FALSE

\* lines 104-108: the try block of create
createBody(coll, docs, document, newid, fault) ==
    IF ~IsDict(document) THEN Raised(ValueError("create() expects a dict document."), <<>>, docs)
    ELSE IF ensure_collection(coll).kind # "none" THEN Raised(ensure_collection(coll), <<>>, docs)
    ELSE LET result == insert_one(docs, document.val, newid, fault)
             calls == <<DriverCall("insert_one", result.error)>>
         IN  IF result.error # NoFault
             THEN Raised(PyMongoError(result.error), calls, result.docs)
             ELSE Returned(result.acknowledged /\ result.inserted_id # 0, calls, result.docs)

cursorFirst(docs, query, fault) ==
    LET r == find(docs, query, fault)
    IN  [r EXCEPT !.found = SubSeq(@, 1, Min(1, Len(@)))]

\* line 121: cursor = self._ensure_collection().find(query), and list(cursor)
cursor(docs, query, fault) == find(docs, query, fault)

\* lines 118-122: the try block of read
readBody(coll, docs, query, fault) ==
    IF ~IsDict(query) THEN Raised(ValueError("read() expects a dict query."), <<>>, docs)
    ELSE IF ensure_collection(coll).kind # "none" THEN Raised(ensure_collection(coll), <<>>, docs)
    ELSE LET result == cursor(docs, query.val, fault)
             calls == <<DriverCall("find", result.error)>>
         IN  IF result.error # NoFault
             THEN Raised(PyMongoError(result.error), calls, result.docs)
             ELSE Returned(result.found, calls, result.docs)

updateCountMatched(result) == result.matched_count

\* line 149: int(result.modified_count or 0)
updateCount(result) == result.modified_count

\* lines 137-149: the try block of update
updateBody(coll, docs, query, new_values, many, pick, fault) ==
    IF ~IsDict(query) THEN Raised(ValueError("update() expects a dict query."), <<>>, docs)
    ELSE IF ~IsDict(new_values)
    THEN Raised(ValueError("update() expects a dict update spec (e.g., {'$set': {...}})."),
                <<>>, docs)
    ELSE IF ensure_collection(coll).kind # "none" THEN Raised(ensure_collection(coll), <<>>, docs)
    ELSE LET result == IF many
                       THEN update_many(docs, query.val, new_values.val, fault)
                       ELSE update_one(docs, query.val, new_values.val, pick, fault)
             calls == <<DriverCall(IF many THEN "update_many" ELSE "update_one", result.error)>>
         IN  IF result.error # NoFault
             THEN Raised(PyMongoError(result.error), calls, result.docs)
             ELSE Returned(updateCount(result), calls, result.docs)

deleteCallOne(docs, q, many, pick, fault) == delete_one(docs, q, pick, fault)

deleteCallMany(docs, q, many, pick, fault) == delete_many(docs, q, fault)

\* lines 164-167: delete_many when many, else delete_one
deleteCall(docs, q, many, pick, fault) ==
    IF many THEN delete_many(docs, q, fault) ELSE delete_one(docs, q, pick, fault)

\* lines 160-168: the try block of delete
deleteBody(coll, docs, query, many, pick, fault) ==
    IF ~IsDict(query) THEN Raised(ValueError("delete() expects a dict query."), <<>>, docs)
    ELSE IF ensure_collection(coll).kind # "none" THEN Raised(ensure_collection(coll), <<>>, docs)
    ELSE LET result == deleteCall(docs, query.val, many, pick, fault)
             calls == <<DriverCall(IF many THEN "delete_many" ELSE "delete_one", result.error)>>
         IN  IF result.error # NoFault
             THEN Raised(PyMongoError(result.error), calls, result.docs)
             ELSE Returned(result.deleted_count, calls, result.docs)

\* what every method call leaves behind for the caller and on the server
Finish(o) ==
    /\ ret' = o.ret
    /\ exc' = o.exc
    /\ printed' = o.printed
    /\ driverCalls' = o.calls
    /\ db' = o.docs
    /\ before' = db
    /\ UNCHANGED <<instance, client, collection>>

\* lines 99-111
create(document, newid, fault) ==
    /\ instance
    /\ call' = [op |-> "create", document |-> document]
    /\ Finish(Handle(createBody(collection, db, document, newid, fault),
                     "[MongoDB][CREATE] Error: ", CreateOnError))

\* lines 113-125
read(query, fault) ==
    /\ instance
    /\ call' = [op |-> "read", query |-> query]
    /\ Finish(Handle(readBody(collection, db, query, fault), "[MongoDB][READ] Error: ", <<>>))

\* lines 127-152
update(query, new_values, many, pick, fault) ==
    /\ instance
    /\ call' = [op |-> "update", query |-> query, new_values |-> new_values, many |-> many]
    /\ Finish(Handle(updateBody(collection, db, query, new_values, many, pick, fault),
                     "[MongoDB][UPDATE] Error: ", 0))

\* lines 154-171
delete(query, many, pick, fault) ==
    /\ instance
    /\ call' = [op |-> "delete", query |-> query, many |-> many]
    /\ Finish(Handle(deleteBody(collection, db, query, many, pick, fault),
                     "[MongoDB][DELETE] Error: ", 0))

\* the _id the driver may assign to a document handed to create
NewIds(docs, document) ==
    IF IsDict(document) /\ document.val._id = 0 THEN FreshIds(docs) ELSE {0}

Init ==
    /\ instance = FALSE
    /\ client = None
    /\ collection = None
    /\ db = {}
    /\ before = {}
    /\ call = [op |-> "none"]
    /\ ret = NoValue
    /\ exc = NoExc
    /\ printed = <<>>
    /\ driverCalls = <<>>

\* the answers of the server to the driver call of a method call: none but NoFault
\* when the arguments keep the call from reaching the driver
Answers(args) == IF \A a \in args : IsDict(a) THEN Faults ELSE {NoFault}

Next ==
    \/ \E config \in Configs, openFault \in Faults :
          \E pingFault \in IF openFault = NoFault THEN Faults ELSE {NoFault} :
             CRUD(config, "aac", "animals", openFault, pingFault)
    \/ \E document \in DocumentArgs :
          \E newid \in NewIds(db, document), fault \in Answers({document}) :
             create(document, newid, fault)
    \/ \E query \in QueryArgs : \E fault \in Answers({query}) : read(query, fault)
    \/ \E query \in QueryArgs, new_values \in UpdateArgs, many \in BOOLEAN :
          \E pick \in Picks(db, query, many), fault \in Answers({query, new_values}) :
             update(query, new_values, many, pick, fault)
    \/ \E query \in QueryArgs, many \in BOOLEAN :
          \E pick \in Picks(db, query, many), fault \in Answers({query}) :
             delete(query, many, pick, fault)

Spec == Init /\ [][Next]_vars

(***************************************************************************)
(* Properties.                                                             *)
(***************************************************************************)
Methods == {"create", "read", "update", "delete"}

FailedIn(calls) == \E i \in 1..Len(calls) : calls[i].error # NoFault

DriverFailed == FailedIn(driverCalls)

\* some argument of the last call that must be a mapping is not one
BadArgs ==
    \/ call.op = "create" /\ ~IsDict(call.document)
    \/ call.op = "read" /\ ~IsDict(call.query)
    \/ call.op = "update" /\ (~IsDict(call.query) \/ ~IsDict(call.new_values))
    \/ call.op = "delete" /\ ~IsDict(call.query)

\* C1: a create, read, update or delete call given a non-mapping where a mapping
\* is required raises a validation error to the caller (nothing is returned,
\* nothing is printed), issues no driver call and leaves the collection as it was.
C1_ValidationRaises ==
    BadArgs =>
        /\ exc.kind = "ValueError"
        /\ ret = NoValue
        /\ printed = <<>>
        /\ driverCalls = <<>>
        /\ db = before

C1_Witness ==
    /\ call.op = "update"
    /\ IsDict(call.query)
    /\ ~IsDict(call.new_values)
    /\ exc.kind = "ValueError"
    /\ before # {}

\* C2: when the driver call of create, read, update or delete fails with a driver
\* error, nothing is raised to the caller: one line tagged with the operation and
\* carrying the error is printed, and create returns false, read the empty
\* sequence, update 0 and delete 0.
C2_DriverErrorSentinel ==
    (call.op \in Methods /\ DriverFailed) =>
        /\ exc = NoExc
        /\ Len(driverCalls) = 1
        /\ Len(printed) = 1
        /\ \/ /\ call.op = "create"
              /\ printed[1] = "[MongoDB][CREATE] Error: " \o driverCalls[1].error
              /\ ret = FALSE
           \/ /\ call.op = "read"
              /\ printed[1] = "[MongoDB][READ] Error: " \o driverCalls[1].error
              /\ ret = <<>>
           \/ /\ call.op = "update"
              /\ printed[1] = "[MongoDB][UPDATE] Error: " \o driverCalls[1].error
              /\ ret = 0
           \/ /\ call.op = "delete"
              /\ printed[1] = "[MongoDB][DELETE] Error: " \o driverCalls[1].error
              /\ ret = 0

C2_Witness ==
    /\ call.op = "delete"
    /\ DriverFailed
    /\ before # {}
    /\ ret = 0

\* C3: an adapter the caller holds has its connection handle and its collection
\* reference set; no call changes either or takes the adapter away; and a
\* constructor whose connect or ping failed raised and returned no adapter.
C3_BoundForLife ==
    /\ [](instance => (client # None /\ collection # None))
    /\ [][instance => (instance' /\ client' = client /\ collection' = collection)]_vars
    /\ []((call.op = "CRUD" /\ DriverFailed) => (~instance /\ exc.kind = "RuntimeError"))

C3_Witness ==
    /\ instance
    /\ call.op \in Methods
    /\ exc.kind = "ValueError"
    /\ client = "MongoClient"
    /\ collection = "aac.animals"

\* C4: the constructor opens the connection once and, only if that succeeded,
\* pings once; a driver failure of either is raised as one RuntimeError
\* "[MongoDB] Connection failed: <the driver's message>"; the collection is bound
\* only after a ping that succeeded.
C4_ConnectOnceWrapped ==
    call.op = "CRUD" =>
        /\ Len(driverCalls) \in {1, 2}
        /\ driverCalls[1].name = "MongoClient"
        /\ (Len(driverCalls) = 2) = (driverCalls[1].error = NoFault)
        /\ Len(driverCalls) = 2 => driverCalls[2].name = "ping"
        /\ DriverFailed =>
              /\ exc.kind = "RuntimeError"
              /\ exc.msg = "[MongoDB] Connection failed: "
                              \o driverCalls[Len(driverCalls)].error
        /\ ~DriverFailed => exc = NoExc
        /\ collection # None =>
              (Len(driverCalls) = 2 /\ driverCalls[2].error = NoFault)

C4_Witness ==
    /\ call.op = "CRUD"
    /\ Len(driverCalls) = 2
    /\ driverCalls[2].error # NoFault
    /\ client # None
    /\ collection = None

\* a sequence of records holds document D: D's fields, under D's _id if it has one
Holds(list, D) ==
    \E i \in 1..Len(list) :
        /\ list[i].name = D.name
        /\ list[i].species = D.species
        /\ D._id # 0 => list[i]._id = D._id

\* a create of a mapping that returned, followed at once by a read whose filter
\* the document satisfies and whose driver call succeeded
CreateThenRead ==
    /\ call.op = "create"
    /\ IsDict(call.document)
    /\ exc.kind = "none"
    /\ call'.op = "read"
    /\ IsDict(call'.query)
    /\ Matches(call.document.val, call'.query.val)
    /\ ~FailedIn(driverCalls')
    /\ exc'.kind = "none"

\* C5 as stated: create(D) returns true if and only if a read that follows with a
\* filter matching D returns a sequence holding D.
C5_Original == [][CreateThenRead => ((ret = TRUE) <=> Holds(ret', call.document.val))]_vars

\* C5 as amended: if create(D) returns true, a read that follows with a filter
\* matching D (its driver call succeeding) returns a sequence holding D.
C5_TrueImpliesRetrievable ==
    [][(CreateThenRead /\ ret = TRUE) => Holds(ret', call.document.val)]_vars

C5_Witness ==
    /\ call.op = "create"
    /\ IsDict(call.document)
    /\ exc.kind = "none"
    /\ ret = TRUE
    /\ before # {}
    /\ db # before

\* an update of mappings whose driver call succeeded
UpdateOk ==
    /\ call.op = "update"
    /\ IsDict(call.query)
    /\ IsDict(call.new_values)
    /\ ~DriverFailed

\* C6 as stated: with N records matching the query, update returns 1 when
\* many is false and N >= 1, 0 when N = 0 and N when many is true, and leaves
\* the records that do not match unchanged.
C6_Original ==
    UpdateOk =>
        LET N == Cardinality(MatchSet(before, call.query.val))
        IN  /\ exc = NoExc
            /\ ret = IF call.many THEN N ELSE Min(N, 1)
            /\ \A d \in before : ~Matches(d, call.query.val) => d \in db

\* C6 as amended: update returns the number of records it changed. Only matching
\* records change, each to itself with the field set to the value; with many the
\* changed records are the matching ones that did not already hold the value (so
\* the count is N only if none did), without many at most one record changes, and
\* exactly one if no matching record already held the value; N = 0 gives 0.
C6_CountsChangedRecords ==
    UpdateOk =>
        LET hit == MatchSet(before, call.query.val)
            f == call.new_values.val.field
            v == call.new_values.val.value
            changed == before \ db
        IN  /\ exc = NoExc
            /\ ret = Cardinality(changed)
            /\ changed \subseteq hit
            /\ db = (before \ changed) \cup {[d EXCEPT ![f] = v] : d \in changed}
            /\ call.many => changed = {d \in hit : d[f] # v}
            /\ ~call.many => ret <= 1
            /\ (~call.many /\ hit # {} /\ \A d \in hit : d[f] # v) => ret = 1
            /\ hit = {} => ret = 0

C6_Witness ==
    /\ UpdateOk
    /\ call.many
    /\ Cardinality(MatchSet(before, call.query.val)) = 2
    /\ ret = 1

\* a delete of a mapping repeated at once with the same arguments, both driver
\* calls succeeding
TwoDeletes ==
    /\ call.op = "delete"
    /\ call'.op = "delete"
    /\ IsDict(call.query)
    /\ call' = call
    /\ ~DriverFailed
    /\ ~FailedIn(driverCalls')

\* C7 as stated (for a query that matched at least one record before the first
\* call): the first of two successive delete calls returns a nonzero count and
\* the second returns zero, for either value of many.
C7_Original ==
    [][(TwoDeletes /\ MatchSet(before, call.query.val) # {}) => (ret # 0 /\ ret' = 0)]_vars

\* C7 as amended: with N records matching before the first call, with many the
\* first call returns N and the second 0; without many the first returns
\* min(N, 1) and the second 0 if N <= 1 and 1 if N >= 2.
C7_RepeatedDelete ==
    [][TwoDeletes =>
          LET N == Cardinality(MatchSet(before, call.query.val))
          IN  /\ exc = NoExc
              /\ exc' = NoExc
              /\ ret = IF call.many THEN N ELSE Min(N, 1)
              /\ ret' = IF call.many \/ N <= 1 THEN 0 ELSE 1]_vars

C7_Witness ==
    /\ call.op = "delete"
    /\ IsDict(call.query)
    /\ ~call.many
    /\ ~DriverFailed
    /\ ret = 1
    /\ MatchSet(db, call.query.val) # {}

\* a delete of a mapping whose driver call succeeded
DeleteOk ==
    /\ call.op = "delete"
    /\ IsDict(call.query)
    /\ ~DriverFailed

\* C8: a delete whose driver call succeeds removes only matching records, all of
\* them with many and min(N, 1) of them without, returns the number it removed,
\* and leaves every record that does not match in the collection unchanged.
C8_DeleteFrame ==
    DeleteOk =>
        LET hit == MatchSet(before, call.query.val)
            removed == before \ db
        IN  /\ exc = NoExc
            /\ db \subseteq before
            /\ removed \subseteq hit
            /\ ret = Cardinality(removed)
            /\ call.many => removed = hit
            /\ ~call.many => ret = Min(Cardinality(hit), 1)
            /\ \A d \in before : ~Matches(d, call.query.val) => d \in db

C8_Witness ==
    /\ DeleteOk
    /\ call.many
    /\ ret = 1
    /\ db # {}

\* C9: read never changes the collection; given a mapping it raises nothing and
\* returns a sequence: when its driver call succeeds, every record of the
\* collection that matches the query, whole and once, and no other record (the
\* empty sequence when none matches).
C9_ReadAllMatches ==
    call.op = "read" =>
        /\ db = before
        /\ IsDict(call.query) =>
              /\ exc = NoExc
              /\ DriverFailed => ret = <<>>
              /\ ~DriverFailed =>
                    /\ Range(ret) = {d \in before : Matches(d, call.query.val)}
                    /\ Len(ret) = Cardinality(Range(ret))

C9_Witness ==
    /\ call.op = "read"
    /\ IsDict(call.query)
    /\ ~DriverFailed
    /\ Len(ret) = 2

\* C10: the connection options hold username, password and authSource exactly
\* when username and password are both non-empty, replicaSet exactly when it is
\* non-empty, and always host, port, tls and the two timeouts of 5000 ms.
C10_ClientOptions ==
    call.op = "CRUD" =>
        LET k == call.kwargs
            c == call.config
            both == c.username # "" /\ c.password # ""
        IN  /\ both => /\ {"username", "password", "authSource"} \subseteq DOMAIN k
                       /\ k.username = c.username
                       /\ k.password = c.password
                       /\ k.authSource = c.authSource
            /\ ~both => {"username", "password", "authSource"} \cap DOMAIN k = {}
            /\ ("replicaSet" \in DOMAIN k) = (c.replicaSet \notin {None, ""})
            /\ "replicaSet" \in DOMAIN k => k.replicaSet = c.replicaSet
            /\ {"host", "port", "tls", "connectTimeoutMS", "serverSelectionTimeoutMS"}
                  \subseteq DOMAIN k
            /\ k.host = c.host
            /\ k.port = c.port
            /\ k.tls = c.tls
            /\ k.connectTimeoutMS = 5000
            /\ k.serverSelectionTimeoutMS = 5000

C10_Witness ==
    /\ call.op = "CRUD"
    /\ call.config.username # ""
    /\ call.config.password = ""
    /\ "authSource" \notin DOMAIN call.kwargs
    /\ instance

====
